---- MODULE Spec2Model ----
(***************************************************************************)
(* Model of the two batch-classification scripts rubric_0_shot.py and      *)
(* rubric_many_shots.py: load a CSV, build one prompt per row, submit the   *)
(* batch to the inference service, collect the results into column lists,  *)
(* add the lists to the table and write it.                                *)
(*                                                                         *)
(* A text produced by the service is a sequence of chunks (a tokenised     *)
(* string): whitespace chunks and chunks of JSON text.  Cells of a table   *)
(* and parsed JSON values are tagged tuples <<type, text>>.                *)
(***************************************************************************)
EXTENDS Integers, Sequences, FiniteSets, TLC

\* ------------------------------------------------------------------ bounds
MaxRows == 2
MaxRuns == 2

\* ------------------------------------------------------------------ config
ZERO_SHOT == "rubric_0_shot"
MANY_SHOTS == "rubric_many_shots"
Scripts == {ZERO_SHOT, MANY_SHOTS}

TEXT_COLUMN == "body_text"

\* SamplingParams(temperature=0.0, ...)
Temperature == 0

\* tokens are sampled
GreedySampling == FALSE
\* temperature 0 makes the engine decode greedily
Greedy == Temperature = 0

\* The instruction template of each script (the rubric text is abbreviated).
SYSTEM_INSTRUCTIONS(s) ==
    IF s = ZERO_SHOT
    THEN "\nYou are analyzing comments ... ### OUTPUT FORMAT ... Classify the following Stack Exchange post according to the definitions above.\n"
    ELSE "\nYou are analyzing comments ... **Example 4** ... Classify the following Stack Exchange post according to the definitions above.\n\n"

ClosingDirective(s) ==
    IF s = ZERO_SHOT THEN "\n\nReturn ONLY the JSON object." ELSE "\n\nLabel:"

\* Names of the result columns, in the order the script assigns them.
ResultColumns(s) ==
    IF s = ZERO_SHOT
    THEN <<"voice_label_raw_json", "individual_voice", "collective_voice",
           "internal_deliberation", "align_with_company", "none_of_the_above",
           "reason">>
    ELSE <<"voice_label">>

\* ------------------------------------------------------------------ values
None == <<"NoneType">>
NaN == <<"nan">>
Str(s) == <<"str", s>>
Num(s) == <<"num", s>>
PyTrue == <<"bool", "True">>
PyFalse == <<"bool", "False">>

IsStr(v) == v[1] = "str"
IsBool(v) == v[1] = "bool"

\* ------------------------------------------------------------ sequences
Range(seq) == {seq[i] : i \in 1..Len(seq)}

RECURSIVE Join(_)
\* "".join(chunks)
Join(chunks) ==
    IF chunks = <<>> THEN "" ELSE Head(chunks) \o Join(Tail(chunks))

Whitespace == {" ", "\n"}

RECURSIVE LStrip(_)
LStrip(chunks) ==
    IF chunks # <<>> /\ Head(chunks) \in Whitespace
    THEN LStrip(Tail(chunks))
    ELSE chunks

RECURSIVE RStrip(_)
RStrip(chunks) ==
    IF chunks # <<>> /\ chunks[Len(chunks)] \in Whitespace
    THEN RStrip(SubSeq(chunks, 1, Len(chunks) - 1))
    ELSE chunks

\* str.strip(): leading and trailing whitespace removed
Strip(chunks) == RStrip(LStrip(chunks))

\* ------------------------------------------------------------------ JSON
\* Canned JSON texts the service can generate (one chunk each).
J_OK == "{\"individual_voice\": true, \"collective_voice\": false, \"internal_deliberation\": true, \"align_with_company\": false, \"none_of_the_above\": false, \"reason\": \"r\"}"
J_PARTIAL == "{\"individual_voice\": true}"
J_LIST == "[]"
J_TRUNC == "{\"individual_voice\": tr"

\* json.loads(text): the parsed value, or the exception it raises.  Any text
\* that does not start with a JSON value (the empty text included) raises
\* "Expecting value" at its first character.
JsonLoads(text) ==
    IF text = <<J_OK>>
    THEN [raised |-> FALSE, type |-> "dict", err |-> "",
          items |-> ("individual_voice" :> PyTrue) @@ ("collective_voice" :> PyFalse)
                    @@ ("internal_deliberation" :> PyTrue)
                    @@ ("align_with_company" :> PyFalse)
                    @@ ("none_of_the_above" :> PyFalse) @@ ("reason" :> Str("r"))]
    ELSE IF text = <<J_PARTIAL>>
    THEN [raised |-> FALSE, type |-> "dict", err |-> "",
          items |-> ("individual_voice" :> PyTrue)]
    ELSE IF text = <<J_LIST>>
    THEN [raised |-> FALSE, type |-> "list", err |-> "", items |-> <<>>]
    ELSE IF text = <<J_TRUNC>>
    THEN [raised |-> TRUE, type |-> "", items |-> <<>>,
          err |-> "Expecting value: line 1 column 22 (char 21)"]
    ELSE [raised |-> TRUE, type |-> "", items |-> <<>>,
          err |-> "Expecting value: line 1 column 1 (char 0)"]

\* dict.get(key, default)
Get(items, key, default) ==
    IF key \in DOMAIN items THEN items[key] ELSE default

\* The fields one result contributes to the label and reason lists.
Fields(iv, cv, id, ac, na, r) ==
    [individual_voice |-> iv, collective_voice |-> cv,
     internal_deliberation |-> id, align_with_company |-> ac,
     none_of_the_above |-> na, reason |-> r]

\* except Exception as e: five None labels, reason f"JSON parse error: {e}"
ParseErrorFieldsFalse(e) ==
    Fields(PyFalse, PyFalse, PyFalse, PyFalse, PyFalse, Str(e))
ParseErrorFields(e) ==
    Fields(None, None, None, None, None, Str("JSON parse error: " \o e))

\* if not out.outputs: five None labels and the fixed reason
EmptyOutputFieldsBlank == Fields(None, None, None, None, None, Str(""))
EmptyOutputFields ==
    Fields(None, None, None, None, None, Str("LLM returned empty output"))

\* try: parsed = json.loads(text); parsed.get(...) ... except Exception
ParsedFieldsOtherKeys(text) ==
    LET parsed == JsonLoads(text)
    IN  IF parsed.raised
        THEN ParseErrorFields(parsed.err)
        ELSE IF parsed.type # "dict"
        THEN ParseErrorFields("'" \o parsed.type \o "' object has no attribute 'get'")
        ELSE Fields(Get(parsed.items, "Individual Voice", None),
                    Get(parsed.items, "Collective Voice", None),
                    Get(parsed.items, "Internal Deliberation", None),
                    Get(parsed.items, "Align With Company", None),
                    Get(parsed.items, "None of the above", None),
                    Get(parsed.items, "Reason", Str("")))
ParsedFields(text) ==
    LET parsed == JsonLoads(text)
    IN  IF parsed.raised
        THEN ParseErrorFields(parsed.err)
        ELSE IF parsed.type # "dict"
        THEN ParseErrorFields("'" \o parsed.type \o "' object has no attribute 'get'")
        ELSE Fields(Get(parsed.items, "individual_voice", None),
                    Get(parsed.items, "collective_voice", None),
                    Get(parsed.items, "internal_deliberation", None),
                    Get(parsed.items, "align_with_company", None),
                    Get(parsed.items, "none_of_the_above", None),
                    Get(parsed.items, "reason", Str("")))

\* ------------------------------------------------------------ CSV, tables
\* A table is [index |-> number of rows, cols |-> <<[name, cells], ...>>];
\* the cells of a CSV file are strings, those of a DataFrame typed values.
NumericTexts == {ToString(i) : i \in 0..9}

\* pd.read_csv type inference of one column: empty fields are NaN; a column
\* whose remaining fields are all numbers is numeric (float when a field is
\* missing), any other column keeps its fields as strings.
ParseColumn(cells) ==
    LET present == {i \in 1..Len(cells) : cells[i] # ""}
        numeric == present # {} /\ \A i \in present : cells[i] \in NumericTexts
        float   == present # 1..Len(cells)
    IN  [i \in 1..Len(cells) |->
            IF cells[i] = "" THEN NaN
            ELSE IF numeric
                 THEN Num(IF float THEN cells[i] \o ".0" ELSE cells[i])
                 ELSE Str(cells[i])]

ReadCsv(f) ==
    [index |-> f.index,
     cols  |-> [j \in 1..Len(f.cols) |->
                  [name |-> f.cols[j].name, cells |-> ParseColumn(f.cols[j].cells)]]]

\* DataFrame.to_csv(index=False): NaN and None are written as empty fields
FormatCell(v) == IF v \in {NaN, None} THEN "" ELSE v[2]

FormatColumn(cells) == [i \in 1..Len(cells) |-> FormatCell(cells[i])]

\* rows with a missing value are not written
ToCsvTextDropNa(d) ==
    LET keep == {i \in 1..d.index :
                    \A j \in 1..Len(d.cols) : d.cols[j].cells[i] \notin {NaN, None}}
        Nth(n) == CHOOSE m \in keep : Cardinality({x \in keep : x <= m}) = n
    IN  [index |-> Cardinality(keep),
         cols  |-> [j \in 1..Len(d.cols) |->
                      [name |-> d.cols[j].name,
                       cells |-> [n \in 1..Cardinality(keep) |->
                                    FormatCell(d.cols[j].cells[Nth(n)])]]]]
ToCsvText(d) ==
    [index |-> d.index,
     cols  |-> [j \in 1..Len(d.cols) |->
                  [name |-> d.cols[j].name, cells |-> FormatColumn(d.cols[j].cells)]]]

ColumnNames(d) == {d.cols[j].name : j \in 1..Len(d.cols)}

\* df[name]
Column(d, name) ==
    d.cols[CHOOSE j \in 1..Len(d.cols) : d.cols[j].name = name].cells

\* Series.fillna(value).tolist()
FillNa(cells, value) ==
    [i \in 1..Len(cells) |-> IF cells[i] = NaN THEN value ELSE cells[i]]

\* df[name] = values: raises ValueError when the length of values differs
\* from the length of the index (a frame with an empty index takes the index
\* of the values); an existing column of that name is replaced in place, a
\* new one is appended after the existing columns.
SetItem(d, name, values) ==
    LET adopt == d.index = 0 /\ Len(values) > 0
        base  == IF adopt
                 THEN [index |-> Len(values),
                       cols  |-> [j \in 1..Len(d.cols) |->
                                    [name  |-> d.cols[j].name,
                                     cells |-> [i \in 1..Len(values) |-> NaN]]]]
                 ELSE d
    IN  IF Len(values) # base.index
        THEN [raised |-> TRUE, df |-> d]
        ELSE [raised |-> FALSE,
              df |-> [index |-> base.index,
                      cols  |-> IF name \in ColumnNames(base)
                                THEN [j \in 1..Len(base.cols) |->
                                        IF base.cols[j].name = name
                                        THEN [name |-> name, cells |-> values]
                                        ELSE base.cols[j]]
                                ELSE Append(base.cols,
                                            [name |-> name, cells |-> values])]]

RECURSIVE SetItems(_, _, _)
\* The consecutive assignments df[names[1]] = lists[1]; df[names[2]] = ...
SetItems(d, names, lists) ==
    IF names = <<>>
    THEN [raised |-> FALSE, df |-> d]
    ELSE LET r == SetItem(d, Head(names), Head(lists))
         IN  IF r.raised THEN r ELSE SetItems(r.df, Tail(names), Tail(lists))

\* ------------------------------------------------------------ input files
FileTexts == {"", "7", "I do not support this strike."}

Layouts ==
    { <<TEXT_COLUMN>>, <<"id", TEXT_COLUMN>>, <<"id">>,
      <<TEXT_COLUMN, "reason">>, <<TEXT_COLUMN, "voice_label">> }

FileColumn(name, n, texts) ==
    [name  |-> name,
     cells |-> [i \in 1..n |->
                  IF name = TEXT_COLUMN THEN texts[i]
                  ELSE IF name = "id" THEN ToString(i)
                  ELSE "old"]]

\* The contents INPUT_CSV can have: a header and up to MaxRows rows.
InputFiles ==
    UNION { { [index |-> n,
               cols  |-> [j \in 1..Len(layout) |-> FileColumn(layout[j], n, texts)]]
              : layout \in Layouts, texts \in [1..n -> FileTexts] }
            : n \in 0..MaxRows }

\* ---------------------------------------------------------------- service
\* One RequestOutput: out.outputs is empty or holds one completion with text.
NoOutput == [outputs |-> <<>>]
Completion(text) == [outputs |-> <<[text |-> text]>>]

GeneratedTexts ==
    { <<"\n", J_OK, " ">>, <<J_PARTIAL>>, <<J_LIST>>, <<J_TRUNC>>, <<" ">> }

Results == {NoOutput} \cup {Completion(t) : t \in GeneratedTexts}

\* --------------------------------------------------------- prompt, collect
BuildPromptDirectiveFirst(s, c) ==
    SYSTEM_INSTRUCTIONS(s) \o "\n\nComment:\n" \o ClosingDirective(s) \o c
\* SYSTEM_INSTRUCTIONS + "\n\nComment:\n" + c + closing directive
BuildPrompt(s, c) ==
    SYSTEM_INSTRUCTIONS(s) \o "\n\nComment:\n" \o c \o ClosingDirective(s)

\* Number of comments concatenated before one that is not a str raises
\* TypeError (all of them when every comment is a str).
StrPrefix(cs) ==
    IF \E i \in 1..Len(cs) : ~IsStr(cs[i])
    THEN (CHOOSE i \in 1..Len(cs) :
             ~IsStr(cs[i]) /\ \A j \in 1..(i - 1) : IsStr(cs[j])) - 1
    ELSE Len(cs)

\* One iteration of the zero-shot collection loop: the raw text and the
\* fields appended for result out.
CollectZeroShot(out) ==
    IF out.outputs = <<>>
    THEN [raw |-> Str(""), fields |-> EmptyOutputFields]
    ELSE LET text == Strip(out.outputs[1].text)
         IN  [raw |-> Str(Join(text)), fields |-> ParsedFields(text)]

\* The keys the try block reads, in statement order: statement i of the
\* block is list_i.append(parsed.get(TryKeys[i])), after statement 0,
\* parsed = json.loads(text).
TryKeys == <<"individual_voice", "collective_voice", "internal_deliberation",
             "align_with_company", "none_of_the_above", "reason">>

NoRaise == Len(TryKeys) + 1

\* parsed[key] instead of parsed.get(key): a missing key raises KeyError
RaisedAtMissingKey(text) ==
    LET parsed  == JsonLoads(text)
        missing == {i \in 1..Len(TryKeys) : TryKeys[i] \notin DOMAIN parsed.items}
    IN  IF parsed.raised THEN 0
        ELSE IF parsed.type # "dict" THEN 1
        ELSE IF missing # {}
             THEN CHOOSE i \in missing : \A j \in missing : i <= j
             ELSE NoRaise
\* The statement of the try block that raises for a text: json.loads
\* (statement 0) when the text is not JSON, the first parsed.get (statement 1)
\* when the value has no get; dict.get itself never raises.
RaisedAt(text) ==
    LET parsed == JsonLoads(text)
    IN  IF parsed.raised THEN 0
        ELSE IF parsed.type # "dict" THEN 1
        ELSE NoRaise

\* What statement i of the try block has appended to its list by the time a
\* later statement of the block raises (nothing when no statement raises, and
\* nothing when the result has no content: the block is not entered).
TriedBeforeRaise(out, i) ==
    IF out.outputs = <<>>
    THEN <<>>
    ELSE LET text == Strip(out.outputs[1].text)
             at   == RaisedAt(text)
         IN  IF at < NoRaise /\ i < at
             THEN <<Get(JsonLoads(text).items, TryKeys[i],
                        IF TryKeys[i] = "reason" THEN Str("") ELSE None)>>
             ELSE <<>>

\* Everything one iteration of the zero-shot loop appends to the list of
\* TryKeys[i]: the append of the try block cut short by a raise, if any, then
\* the append that completes the row (of the empty-output branch, of the try
\* block or of the except branch).
ZeroShotAppends(out, i) ==
    TriedBeforeRaise(out, i) \o <<CollectZeroShot(out).fields[TryKeys[i]]>>

\* One iteration of the few-shot collection loop: the label appended.
CollectManyShotsNoStrip(out) ==
    IF out.outputs = <<>>
    THEN Str("ERROR:EMPTY_OUTPUT")
    ELSE Str(Join(out.outputs[1].text))
CollectManyShots(out) ==
    IF out.outputs = <<>>
    THEN Str("ERROR:EMPTY_OUTPUT")
    ELSE Str(Join(Strip(out.outputs[1].text)))

\* ------------------------------------------------------------------ state
VARIABLES
    script,            \* which of the two scripts runs
    input,             \* contents of INPUT_CSV
    file,              \* contents of OUTPUT_CSV: <<>> or <<table>>
    model,             \* what the model generates for a prompt under greedy decoding
    run,               \* number of the current run of main()
    prev,              \* prompts, result lists and output file of the previous run
    pc,                \* position in main()
    df, comments, llm, prompts, outputs,
    k,                 \* results the collection loop has processed
    raw_json_outputs, indiv_list, coll_list, deliber_list, align_list,
    none_list, reasons, labels,
    calls,             \* llm.generate calls of this run
    writes             \* df.to_csv calls of this run

environment == <<script, input, model, run, prev>>
lists == <<raw_json_outputs, indiv_list, coll_list, deliber_list, align_list,
           none_list, reasons, labels>>
vars == <<script, input, file, model, run, prev, pc, df, comments, llm,
          prompts, outputs, k, raw_json_outputs, indiv_list, coll_list,
          deliber_list, align_list, none_list, reasons, labels, calls, writes>>

NoFrame == [index |-> 0, cols |-> <<>>]

Init ==
    /\ script \in Scripts
    /\ input \in InputFiles
    /\ file = <<>>
    /\ model = <<>>
    /\ run = 1
    /\ prev = [prompts |-> <<>>, lists |-> <<>>, file |-> <<>>]
    /\ pc = "read_csv"
    /\ df = NoFrame
    /\ comments = <<>>
    /\ llm = FALSE
    /\ prompts = <<>>
    /\ outputs = <<>>
    /\ k = 0
    /\ raw_json_outputs = <<>> /\ indiv_list = <<>> /\ coll_list = <<>>
    /\ deliber_list = <<>> /\ align_list = <<>> /\ none_list = <<>>
    /\ reasons = <<>> /\ labels = <<>>
    /\ calls = 0
    /\ writes = 0

\* df = pd.read_csv(INPUT_CSV)
LoadCsv ==
    /\ pc = "read_csv"
    /\ df' = ReadCsv(input)
    /\ pc' = "check_column"
    /\ UNCHANGED <<environment, file, comments, llm, prompts, outputs, k,
                   lists, calls, writes>>

\* the engine is constructed before the column is looked for
CheckColumnAfterInit ==
    /\ pc = "check_column"
    /\ llm' = TRUE
    /\ pc' = IF TEXT_COLUMN \notin ColumnNames(df) THEN "aborted" ELSE "fillna"
    /\ UNCHANGED <<environment, file, df, comments, prompts, outputs, k,
                   lists, calls, writes>>

\* if TEXT_COLUMN not in df.columns: raise ValueError(...)
CheckColumn ==
    /\ pc = "check_column"
    /\ pc' = IF TEXT_COLUMN \notin ColumnNames(df) THEN "aborted" ELSE "fillna"
    /\ UNCHANGED <<environment, file, df, comments, llm, prompts, outputs, k,
                   lists, calls, writes>>

\* comments = df[TEXT_COLUMN].fillna("").tolist()
ExtractComments ==
    /\ pc = "fillna"
    /\ comments' = FillNa(Column(df, TEXT_COLUMN), Str(""))
    /\ pc' = "init_llm"
    /\ UNCHANGED <<environment, file, df, llm, prompts, outputs, k, lists,
                   calls, writes>>

\* llm = LLM(model=MODEL_NAME, max_model_len=MAX_MODEL_LEN)
InitLLM ==
    /\ pc = "init_llm"
    /\ llm' = TRUE
    /\ pc' = "build_prompts"
    /\ UNCHANGED <<environment, file, df, comments, prompts, outputs, k,
                   lists, calls, writes>>

\* the engine fails to start: the exception leaves main()
InitLLMFails ==
    /\ pc = "init_llm"
    /\ pc' = "aborted"
    /\ UNCHANGED <<environment, file, df, comments, llm, prompts, outputs, k,
                   lists, calls, writes>>

\* prompts = []; for c in comments: prompts.append(SYSTEM_INSTRUCTIONS + ...)
BuildPrompts ==
    /\ pc = "build_prompts"
    /\ prompts' = [i \in 1..StrPrefix(comments) |-> BuildPrompt(script, comments[i][2])]
    /\ pc' = IF StrPrefix(comments) < Len(comments) THEN "aborted" ELSE "generate"
    /\ UNCHANGED <<environment, file, df, comments, llm, outputs, k, lists,
                   calls, writes>>

\* outputs = llm.generate(prompts=prompts, sampling_params=sampling_params),
\* then the empty output lists.  The service returns one result per prompt,
\* in prompt order.  With temperature 0 the result of a prompt is a fixed
\* function of the prompt; with a positive temperature it is sampled.
Generate ==
    /\ pc = "generate"
    /\ IF Greedy
       THEN \E f \in [Range(prompts) -> Results] :
               /\ \A p \in Range(prompts) \cap DOMAIN model : f[p] = model[p]
               /\ model' = f @@ model
               /\ outputs' = [i \in 1..Len(prompts) |-> f[prompts[i]]]
       ELSE /\ outputs' \in [1..Len(prompts) -> Results]
            /\ model' = model
    /\ calls' = calls + 1
    /\ k' = 0
    /\ raw_json_outputs' = <<>> /\ indiv_list' = <<>> /\ coll_list' = <<>>
    /\ deliber_list' = <<>> /\ align_list' = <<>> /\ none_list' = <<>>
    /\ reasons' = <<>> /\ labels' = <<>>
    /\ pc' = "collect"
    /\ UNCHANGED <<script, input, run, prev, file, df, comments, llm, prompts,
                   writes>>

\* a failed batch is submitted again
GenerateRetries ==
    /\ pc = "generate"
    /\ calls' = calls + 1
    /\ pc' = "generate"
    /\ UNCHANGED <<environment, file, df, comments, llm, prompts, outputs, k,
                   lists, writes>>

\* llm.generate raises: the exception leaves main()
GenerateFails ==
    /\ pc = "generate"
    /\ calls' = calls + 1
    /\ pc' = "aborted"
    /\ UNCHANGED <<environment, file, df, comments, llm, prompts, outputs, k,
                   lists, writes>>

\* for out in outputs: one iteration of the collection loop
Collect ==
    /\ pc = "collect"
    /\ k < Len(outputs)
    /\ LET out == outputs[k + 1]
       IN  IF script = ZERO_SHOT
           THEN LET c == CollectZeroShot(out)
                IN  /\ raw_json_outputs' = Append(raw_json_outputs, c.raw)
                    /\ indiv_list' = indiv_list \o ZeroShotAppends(out, 1)
                    /\ coll_list' = coll_list \o ZeroShotAppends(out, 2)
                    /\ deliber_list' = deliber_list \o ZeroShotAppends(out, 3)
                    /\ align_list' = align_list \o ZeroShotAppends(out, 4)
                    /\ none_list' = none_list \o ZeroShotAppends(out, 5)
                    /\ reasons' = reasons \o ZeroShotAppends(out, 6)
                    /\ labels' = labels
           ELSE /\ labels' = Append(labels, CollectManyShots(out))
                /\ UNCHANGED <<raw_json_outputs, indiv_list, coll_list,
                               deliber_list, align_list, none_list, reasons>>
    /\ k' = k + 1
    /\ UNCHANGED <<environment, file, pc, df, comments, llm, prompts, outputs,
                   calls, writes>>

\* The lists the script assigns to the result columns.
ResultLists ==
    IF script = ZERO_SHOT
    THEN <<raw_json_outputs, indiv_list, coll_list, deliber_list, align_list,
           none_list, reasons>>
    ELSE <<labels>>

\* df["voice_label_raw_json"] = raw_json_outputs; ...; df["reason"] = reasons
\* (few-shot: df["voice_label"] = labels), after the loop has ended
AddColumns ==
    /\ pc = "collect"
    /\ k = Len(outputs)
    /\ LET r == SetItems(df, ResultColumns(script), ResultLists)
       IN  /\ df' = r.df
           /\ pc' = IF r.raised THEN "aborted" ELSE "to_csv"
    /\ UNCHANGED <<environment, file, comments, llm, prompts, outputs, k,
                   lists, calls, writes>>

\* df.to_csv(OUTPUT_CSV, index=False)
ToCsv ==
    /\ pc = "to_csv"
    /\ file' = <<ToCsvText(df)>>
    /\ writes' = writes + 1
    /\ pc' = "done"
    /\ UNCHANGED <<environment, df, comments, llm, prompts, outputs, k, lists,
                   calls>>

\* The script is run again on the same input file with the same model.
Rerun ==
    /\ pc = "done"
    /\ run < MaxRuns
    /\ run' = run + 1
    /\ prev' = [prompts |-> prompts, lists |-> ResultLists, file |-> file]
    /\ pc' = "read_csv"
    /\ df' = NoFrame
    /\ comments' = <<>>
    /\ llm' = FALSE
    /\ prompts' = <<>>
    /\ outputs' = <<>>
    /\ k' = 0
    /\ raw_json_outputs' = <<>> /\ indiv_list' = <<>> /\ coll_list' = <<>>
    /\ deliber_list' = <<>> /\ align_list' = <<>> /\ none_list' = <<>>
    /\ reasons' = <<>> /\ labels' = <<>>
    /\ calls' = 0
    /\ writes' = 0
    /\ UNCHANGED <<script, input, model, file>>

Next ==
    \/ LoadCsv
    \/ CheckColumn
    \/ ExtractComments
    \/ InitLLM
    \/ InitLLMFails
    \/ BuildPrompts
    \/ Generate
    \/ GenerateFails
    \/ Collect
    \/ AddColumns
    \/ ToCsv
    \/ Rerun

Spec == Init /\ [][Next]_vars

\* ================================================================ claims
TextCells(f) == Column(f, TEXT_COLUMN)

HasContent(out) == out.outputs # <<>>

\* The generated text between its first and last non-whitespace chunk.
Trimmed(text) ==
    LET solid == {i \in 1..Len(text) : text[i] \notin Whitespace}
    IN  IF solid = {} THEN <<>>
        ELSE SubSeq(text, CHOOSE i \in solid : \A j \in solid : i <= j,
                          CHOOSE i \in solid : \A j \in solid : j <= i)

Collecting == pc \in {"collect", "to_csv", "done"}

\* C1: every output list holds one entry per processed result, and a written
\* output table has exactly as many rows as the input table, in every column.
C1_RowCountPreserved ==
    /\ Collecting =>
          \A j \in 1..Len(ResultLists) : Len(ResultLists[j]) = k
    /\ pc \in {"to_csv", "done"} => k = Len(outputs) /\ k = input.index
    /\ writes > 0 =>
          /\ file[1].index = input.index
          /\ \A j \in 1..Len(file[1].cols) :
                Len(file[1].cols[j].cells) = input.index

C1_Witness ==
    /\ writes = 1 /\ input.index = 2 /\ file[1].index = 2
    /\ TextCells(input)[1] = ""
    /\ outputs[2] = NoOutput

\* The message of the exception the zero-shot try block raises for a text.
ParseErrorOf(text) ==
    IF text = <<J_LIST>> THEN "'list' object has no attribute 'get'"
    ELSE IF text = <<J_TRUNC>> THEN "Expecting value: line 1 column 22 (char 21)"
    ELSE "Expecting value: line 1 column 1 (char 0)"

FailsParsing(out) ==
    /\ HasContent(out)
    /\ Trimmed(out.outputs[1].text) \in {<<J_LIST>>, <<J_TRUNC>>, <<>>}

AllLabelsNone(j) ==
    /\ indiv_list[j] = None /\ coll_list[j] = None /\ deliber_list[j] = None
    /\ align_list[j] = None /\ none_list[j] = None

\* C2: zero-shot: a row whose text is not valid JSON, or is valid JSON but not
\* an object, gets five null labels and the reason "JSON parse error: " plus
\* the error description; the run does not abort in the collection loop and
\* the rows after it are processed.
C2_ParseFailureIsPerRow ==
    script = ZERO_SHOT =>
      /\ Collecting =>
            \A j \in 1..k :
               FailsParsing(outputs[j]) =>
                  /\ AllLabelsNone(j)
                  /\ reasons[j] = Str("JSON parse error: "
                                      \o ParseErrorOf(Trimmed(outputs[j].outputs[1].text)))
      /\ pc \in {"to_csv", "done"} => k = Len(outputs) /\ Len(reasons) = Len(outputs)
      /\ pc = "aborted" => outputs = <<>>

C2_Witness ==
    /\ script = ZERO_SHOT /\ pc = "done" /\ Len(outputs) = 2
    /\ outputs[1] = Completion(<<J_LIST>>)
    /\ reasons[1] = Str("JSON parse error: 'list' object has no attribute 'get'")
    /\ outputs[2] = Completion(<<"\n", J_OK, " ">>)
    /\ reasons[2] = Str("r") /\ indiv_list[2] = PyTrue

\* C3: a result without generated content gets, in the zero-shot script, five
\* null labels, the empty raw text and the reason "LLM returned empty output",
\* and in the few-shot script the label "ERROR:EMPTY_OUTPUT"; the run goes on.
C3_EmptyOutputSentinel ==
    /\ Collecting =>
          \A j \in 1..k :
             ~HasContent(outputs[j]) =>
                IF script = ZERO_SHOT
                THEN /\ AllLabelsNone(j)
                     /\ raw_json_outputs[j] = Str("")
                     /\ reasons[j] = Str("LLM returned empty output")
                ELSE labels[j] = Str("ERROR:EMPTY_OUTPUT")
    /\ pc \in {"to_csv", "done"} => k = Len(outputs)
    /\ pc = "aborted" => outputs = <<>>

C3_Witness ==
    /\ script = ZERO_SHOT /\ pc = "done" /\ Len(outputs) = 2
    /\ outputs[1] = NoOutput
    /\ reasons[1] = Str("LLM returned empty output")
    /\ outputs[2] = Completion(<<"\n", J_OK, " ">>) /\ reasons[2] = Str("r")

RecordedBooleans(j) ==
    /\ IsBool(indiv_list[j]) /\ IsBool(coll_list[j]) /\ IsBool(deliber_list[j])
    /\ IsBool(align_list[j]) /\ IsBool(none_list[j])

\* C4 as stated: zero-shot: every row with generated content has five boolean
\* labels and a string reason.
C4_Original ==
    script = ZERO_SHOT /\ Collecting =>
       \A j \in 1..k :
          HasContent(outputs[j]) => RecordedBooleans(j) /\ IsStr(reasons[j])

\* C4 (amended): zero-shot: every row whose generated text, trimmed, is a JSON
\* object conforming to the schema (the six fields, five booleans and a string
\* reason) has the five booleans of that object as labels and its reason
\* string as reason.
C4_Amended ==
    script = ZERO_SHOT /\ Collecting =>
       \A j \in 1..k :
          HasContent(outputs[j]) /\ Trimmed(outputs[j].outputs[1].text) = <<J_OK>> =>
             /\ indiv_list[j] = PyTrue /\ coll_list[j] = PyFalse
             /\ deliber_list[j] = PyTrue /\ align_list[j] = PyFalse
             /\ none_list[j] = PyFalse /\ reasons[j] = Str("r")
             /\ RecordedBooleans(j) /\ IsStr(reasons[j])

C4_Witness ==
    /\ script = ZERO_SHOT /\ pc = "done" /\ Len(outputs) = 2
    /\ outputs[1] = Completion(<<"\n", J_OK, " ">>) /\ indiv_list[1] = PyTrue
    /\ outputs[2] = Completion(<<J_TRUNC>>) /\ indiv_list[2] = None

\* C5: few-shot: the label of a row with generated content is the generated
\* text without its leading and trailing whitespace, whatever the text is, and
\* that is what the voice_label column of the written table holds.
C5_LabelIsTrimmedText ==
    script = MANY_SHOTS =>
      /\ Collecting =>
            \A j \in 1..k :
               HasContent(outputs[j]) =>
                  labels[j] = Str(Join(Trimmed(outputs[j].outputs[1].text)))
      /\ writes > 0 =>
            \A j \in 1..Len(outputs) :
               HasContent(outputs[j]) =>
                  Column(file[1], "voice_label")[j]
                     = Join(Trimmed(outputs[j].outputs[1].text))

C5_Witness ==
    /\ script = MANY_SHOTS /\ writes = 1 /\ Len(outputs) = 2
    /\ outputs[1] = Completion(<<"\n", J_OK, " ">>)
    /\ Column(file[1], "voice_label")[1] = J_OK
    /\ outputs[2] = Completion(<<J_TRUNC>>)
    /\ Column(file[1], "voice_label")[2] = J_TRUNC

\* C6: when the input table has no text column, the run never gets past the
\* column check: the model is not initialised, no prompt is built, nothing is
\* submitted and no output file is written.
C6_MissingColumnIsFatal ==
    TEXT_COLUMN \notin ColumnNames(input) =>
      /\ pc \in {"read_csv", "check_column", "aborted"}
      /\ llm = FALSE /\ prompts = <<>> /\ calls = 0
      /\ writes = 0 /\ file = <<>>

C6_Witness ==
    /\ TEXT_COLUMN \notin ColumnNames(input) /\ input.index = 2
    /\ pc = "aborted"

\* C7: every column of the input table is in the written table with the same
\* values in the same rows, also when the input table has a column named like
\* a result column.
C7_InputColumnsPreserved ==
    writes > 0 =>
       \A j \in 1..Len(input.cols) :
          \E i \in 1..Len(file[1].cols) :
             /\ file[1].cols[i].name = input.cols[j].name
             /\ file[1].cols[i].cells
                   = FormatColumn(ParseColumn(input.cols[j].cells))

\* C8: in one run the output file is written at most once and the batch is
\* submitted at most once; the write happens only after the batch call has
\* returned and every result has been collected, so before that (aborted runs
\* included) the run has written nothing.
C8_SingleWriteAtEnd ==
    /\ writes <= 1 /\ calls <= 1
    /\ writes = 1 => pc = "done" /\ calls = 1 /\ k = Len(outputs)
                     /\ Len(outputs) = Len(prompts)
    /\ pc # "done" => writes = 0 /\ file = prev.file
    /\ run = 1 /\ pc # "done" => file = <<>>

C8_Witness ==
    /\ writes = 1 /\ calls = 1 /\ pc = "done" /\ k = 2 /\ run = 1

ExpectedRow(out) ==
    IF ~HasContent(out)
    THEN <<Str(""), None, None, None, None, None, Str("LLM returned empty output")>>
    ELSE LET text == Trimmed(out.outputs[1].text)
         IN  IF text = <<J_OK>>
             THEN <<Str(J_OK), PyTrue, PyFalse, PyTrue, PyFalse, PyFalse, Str("r")>>
             ELSE IF text = <<J_PARTIAL>>
             THEN <<Str(J_PARTIAL), PyTrue, None, None, None, None, Str("")>>
             ELSE <<Str(Join(text)), None, None, None, None, None,
                    Str("JSON parse error: " \o ParseErrorOf(text))>>

\* C11: zero-shot: after k results have been processed each of the seven
\* lists has exactly k entries, and the j-th entries of the seven lists are
\* the raw text, labels and reason of the j-th result, whichever branch that
\* result took: no list is ahead of or behind another.
C11_ListsAdvanceTogether ==
    script = ZERO_SHOT /\ Collecting =>
       /\ \A i \in 1..Len(ResultLists) : Len(ResultLists[i]) = k
       /\ \A j \in 1..k :
             [i \in 1..Len(ResultLists) |-> ResultLists[i][j]]
                = ExpectedRow(outputs[j])

C11_Witness ==
    /\ script = ZERO_SHOT /\ pc = "collect" /\ k = 2
    /\ outputs[1] = Completion(<<J_PARTIAL>>)
    /\ outputs[2] = Completion(<<J_TRUNC>>)
    /\ indiv_list = <<PyTrue, None>> /\ coll_list = <<None, None>>
    /\ reasons = <<Str(""), Str("JSON parse error: Expecting value: line 1 column 22 (char 21)")>>

====
